---- MODULE Spec2Model ----
(***************************************************************************)
(* SIP calculator (src/src/SIPCalculator.jsx): the calculation engine      *)
(* sipUtils and the SIPCalculator component that feeds it.                 *)
(*                                                                         *)
(* A JavaScript Number is modelled as what it is, an IEEE-754 binary64     *)
(* value: [neg, m, x] is (-1)^neg * m * 2^x with 2^52 <= m < 2^53 (or m    *)
(* zero), and every arithmetic operation is the exact operation followed   *)
(* by rounding to 53 significant bits, ties to even.  Left out: the sign   *)
(* of zero, NaN and the infinities, and the limits of the exponent (no     *)
(* value of the model comes near 2^-1022 or 2^1024).                       *)
(***************************************************************************)
EXTENDS Integers, Sequences, FiniteSets, TLC

(***************************************************************************)
(* Arbitrary-precision naturals: little-endian sequences of limbs in       *)
(* 0..Base-1 with no high zero limb; zero is << >>.                        *)
(***************************************************************************)
LimbBits == 2 * 7

Base == 2^LimbBits

Max(a, b) == IF a >= b THEN a ELSE b

Min(a, b) == IF a <= b THEN a ELSE b

\* y, with x evaluated first: TLC evaluates an operator's arguments on demand,
\* and a loop whose steps are all pending is evaluated to a depth that grows
\* with the loop; this keeps the evaluation of each step shallow
Strictly(x, y) == IF x = x THEN y ELSE y

Limb(a, i) == IF 1 <= i /\ i <= Len(a) THEN a[i] ELSE 0

\* a without its high zero limbs
NNorm(a) ==
  IF a = << >> THEN a
  ELSE IF a[Len(a)] # 0 THEN a
  ELSE IF \A i \in 1..Len(a) : a[i] = 0 THEN << >>
  ELSE SubSeq(a, 1, CHOOSE i \in 1..Len(a) :
                      a[i] # 0 /\ \A j \in (i + 1)..Len(a) : a[j] = 0)

RECURSIVE NFromInt(_)
NFromInt(k) == IF k = 0 THEN << >> ELSE <<k % Base>> \o NFromInt(k \div Base)

\* the carry out of limb i of the limb sums s, each at most 2 * Base - 2
RECURSIVE Carry(_, _)
Carry(s, i) ==
  IF i = 0 THEN 0
  ELSE IF s[i] >= Base THEN 1
  ELSE IF s[i] = Base - 1 THEN Carry(s, i - 1)
  ELSE 0

\* the natural whose limb sums are s
Carried(s) ==
  NNorm(SubSeq([i \in 1..(Len(s) + 1) |-> (Limb(s, i) + Carry(s, i - 1)) % Base],
               1, Len(s) + 1))

NAdd(a, b) ==
  IF a = << >> THEN b
  ELSE IF b = << >> THEN a
  ELSE Carried(SubSeq([i \in 1..Max(Len(a), Len(b)) |-> Limb(a, i) + Limb(b, i)],
                      1, Max(Len(a), Len(b))))

\* the borrow out of limb i of the limb differences t
RECURSIVE Borrow(_, _)
Borrow(t, i) ==
  IF i = 0 THEN 0
  ELSE IF t[i] < 0 THEN 1
  ELSE IF t[i] = 0 THEN Borrow(t, i - 1)
  ELSE 0

\* a - b for a >= b
NSub(a, b) ==
  IF b = << >> THEN a
  ELSE LET t == SubSeq([i \in 1..Len(a) |-> a[i] - Limb(b, i)], 1, Len(a))
       IN NNorm(SubSeq([i \in 1..Len(a) |-> (t[i] - Borrow(t, i - 1) + Base) % Base],
                       1, Len(a)))

\* -1, 0, 1 as a < b, a = b, a > b on limbs lo..hi, the high limbs deciding
RECURSIVE NCmpRange(_, _, _, _)
NCmpRange(a, b, lo, hi) ==
  IF lo = hi THEN (IF a[lo] < b[lo] THEN -1 ELSE IF a[lo] > b[lo] THEN 1 ELSE 0)
  ELSE LET mid == (lo + hi) \div 2
           high == NCmpRange(a, b, mid + 1, hi)
       IN IF high # 0 THEN high ELSE NCmpRange(a, b, lo, mid)

NCmp(a, b) ==
  IF Len(a) < Len(b) THEN -1
  ELSE IF Len(a) > Len(b) THEN 1
  ELSE IF a = b THEN 0
  ELSE NCmpRange(a, b, 1, Len(a))

\* a * f for a machine integer 0 <= f < Base
NMulSmall(a, f) ==
  IF f = 0 \/ a = << >> THEN << >>
  ELSE IF f = 1 THEN a
  ELSE Carried(SubSeq([i \in 1..(Len(a) + 1) |->
                         ((Limb(a, i) * f) % Base) + ((Limb(a, i - 1) * f) \div Base)],
                      1, Len(a) + 1))

\* a * Base^k
NShift(a, k) ==
  IF a = << >> \/ k = 0 THEN a ELSE SubSeq([i \in 1..k |-> 0], 1, k) \o a

\* a * (limbs lo..hi of b) * Base^(lo - 1)
RECURSIVE NMulRange(_, _, _, _)
NMulRange(a, b, lo, hi) ==
  IF lo = hi THEN NShift(NMulSmall(a, b[lo]), lo - 1)
  ELSE LET mid == (lo + hi) \div 2
       IN NAdd(NMulRange(a, b, lo, mid), NMulRange(a, b, mid + 1, hi))

NMul(a, b) ==
  IF a = << >> \/ b = << >> THEN << >>
  ELSE IF Len(a) >= Len(b) THEN NMulRange(a, b, 1, Len(b))
  ELSE NMulRange(b, a, 1, Len(a))

\* a * 2^k and floor(a / 2^k)
NShiftLeft(a, k) == NMulSmall(NShift(a, k \div LimbBits), 2^(k % LimbBits))

NShiftRight(a, k) ==
  LET drop == k \div LimbBits
      r == k % LimbBits
      n == Len(a) - drop
  IN IF n <= 0 THEN << >>
     ELSE NNorm(SubSeq([i \in 1..n |->
                          (a[i + drop] \div 2^r)
                          + (Limb(a, i + drop + 1) % 2^r) * 2^(LimbBits - r)],
                       1, n))

\* the number of bits of a, and bit i of a (bit 0 the lowest)
NBitLen(a) ==
  IF a = << >> THEN 0
  ELSE LimbBits * (Len(a) - 1)
       + (CHOOSE b \in 1..LimbBits : 2^(b - 1) <= a[Len(a)] /\ a[Len(a)] < 2^b)

NBit(a, i) == (Limb(a, (i \div LimbBits) + 1) \div 2^(i % LimbBits)) % 2

\* whether the k low bits of a are all zero
NLowZero(a, k) ==
  /\ \A i \in 1..Min(k \div LimbBits, Len(a)) : a[i] = 0
  /\ Limb(a, (k \div LimbBits) + 1) % 2^(k % LimbBits) = 0

\* the number of low zero bits of a # << >>
NTrailingZeros(a) ==
  LET i == CHOOSE j \in 1..Len(a) : a[j] # 0 /\ \A h \in 1..(j - 1) : a[h] = 0
      b == CHOOSE c \in 0..(LimbBits - 1) : a[i] % 2^c = 0 /\ (a[i] \div 2^c) % 2 = 1
  IN LimbBits * (i - 1) + b

\* floor(a / b) for b # << >>, found bit by bit from bit hi down to bit lo:
\* what is left of a, and the quotient bits found
RECURSIVE NDivBits(_, _, _, _)
NDivBits(a, b, lo, hi) ==
  IF lo = hi
  THEN LET d == NShiftLeft(b, lo)
       IN IF NCmp(a, d) >= 0 THEN [r |-> NSub(a, d), q |-> NShiftLeft(<<1>>, lo)]
          ELSE [r |-> a, q |-> << >>]
  ELSE LET mid == (lo + hi) \div 2
           high == NDivBits(a, b, mid + 1, hi)
           low == NDivBits(high.r, b, lo, mid)
       IN Strictly(high, [r |-> low.r, q |-> NAdd(high.q, low.q)])

\* the limbs lo..hi of floor(a / f) for a machine integer 0 < f < Base, r
\* being what the limbs above hi left over
RECURSIVE NDivRange(_, _, _, _, _)
NDivRange(a, f, lo, hi, r) ==
  IF lo = hi
  THEN [q |-> <<(r * Base + a[lo]) \div f>>, r |-> (r * Base + a[lo]) % f]
  ELSE LET mid == (lo + hi) \div 2
           high == NDivRange(a, f, mid + 1, hi, r)
           low == NDivRange(a, f, lo, mid, high.r)
       IN [q |-> low.q \o high.q, r |-> low.r]

\* floor(a / b) and whether anything is left over, for a # << >> and b # << >>
NDiv(a, b) ==
  IF Len(b) = 1
  THEN LET d == NDivRange(a, b[1], 1, Len(a), 0)
       IN [q |-> NNorm(d.q), exact |-> d.r = 0]
  ELSE LET d == NDivBits(a, b, 0, Max(NBitLen(a) - NBitLen(b), 0))
       IN [q |-> d.q, exact |-> d.r = << >>]

(***************************************************************************)
(* Numbers: [neg, m, x] stands for (-1)^neg * m * 2^x, m being four limbs  *)
(* with 2^52 <= m < 2^53, or Zero: two Numbers are equal exactly when      *)
(* their records are.                                                      *)
(***************************************************************************)
Precision == 53

\* the bits Math.pow carries through its intermediate products
GuardBits == 2 * Precision + 14

Zero == [neg |-> FALSE, m |-> <<0, 0, 0, 0>>, x |-> 0]

IsZero(a) == a.m[4] = 0

\* (-1)^neg * r * 2^x for 2^52 <= r <= 2^53
Renormal(neg, r, x) ==
  IF NBitLen(r) > Precision THEN [neg |-> neg, m |-> NShiftRight(r, 1), x |-> x + 1]
  ELSE [neg |-> neg, m |-> r, x |-> x]

\* the natural nearest to n / 2^s for s > 0, a tie going to the even one
NearestShift(n, s) ==
  IF NBit(n, s - 1) = 1 /\ (~NLowZero(n, s - 1) \/ NBit(n, s) = 1)
  THEN NAdd(NShiftRight(n, s), <<1>>)
  ELSE NShiftRight(n, s)

RoundBy(neg, n, x, s) ==
  IF s <= 0 THEN [neg |-> neg, m |-> NShiftLeft(n, -s), x |-> x + s]
  ELSE Renormal(neg, NearestShift(n, s), x + s)

\* the Number nearest to (-1)^neg * n * 2^x for a natural n, a tie going to
\* the one whose m is even
Round(neg, n, x) ==
  IF n = << >> THEN Zero ELSE RoundBy(neg, n, x, NBitLen(n) - Precision)

FromInt(k) == Round(k < 0, NFromInt(IF k < 0 THEN -k ELSE k), 0)

One == FromInt(1)

Neg(a) == IF IsZero(a) THEN a ELSE [a EXCEPT !.neg = ~a.neg]

\* -1, 0, 1 as |a| < |b|, |a| = |b|, |a| > |b|
CmpAbs(a, b) ==
  IF IsZero(a) THEN (IF IsZero(b) THEN 0 ELSE -1)
  ELSE IF IsZero(b) THEN 1
  ELSE IF a.x < b.x THEN -1
  ELSE IF a.x > b.x THEN 1
  ELSE NCmp(a.m, b.m)

Cmp(a, b) ==
  IF a.neg # b.neg THEN (IF a.neg THEN -1 ELSE 1)
  ELSE IF a.neg THEN CmpAbs(b, a)
  ELSE CmpAbs(a, b)

Lt(a, b) == Cmp(a, b) < 0

Le(a, b) == Cmp(a, b) <= 0

\* Sums and products are formed on four limbs that hold the 53 bits of the
\* result and three bits more, the lowest of which stands for everything
\* below it.  Limb j of a / 2^(LimbBits * k + r) and of a * 2^(LimbBits * k + r):
ShrLimb(a, k, r, j) ==
  (Limb(a, j + k) \div 2^r) + (Limb(a, j + k + 1) % 2^r) * 2^(LimbBits - r)

ShlLimb(a, k, r, j) ==
  ((Limb(a, j - k) * 2^r) % Base) + (Limb(a, j - k - 1) \div 2^(LimbBits - r))

\* the low bit of limb v set when anything was lost below it
Jam(v, lost) == IF lost /\ v % 2 = 0 THEN v + 1 ELSE v

\* four limbs of a / 2^d, the lowest bit telling whether bits were lost
ShrJam(a, d) ==
  <<Jam(ShrLimb(a, d \div LimbBits, d % LimbBits, 1), ~NLowZero(a, d)),
    ShrLimb(a, d \div LimbBits, d % LimbBits, 2),
    ShrLimb(a, d \div LimbBits, d % LimbBits, 3),
    ShrLimb(a, d \div LimbBits, d % LimbBits, 4)>>

\* four limbs of a * 2^d
Shl(a, d) ==
  <<ShlLimb(a, d \div LimbBits, d % LimbBits, 1),
    ShlLimb(a, d \div LimbBits, d % LimbBits, 2),
    ShlLimb(a, d \div LimbBits, d % LimbBits, 3),
    ShlLimb(a, d \div LimbBits, d % LimbBits, 4)>>

\* a + b and a - b (for a >= b) on four limbs, the fifth being the carry out
Add4(a, b) ==
  LET s1 == a[1] + b[1]
      s2 == a[2] + b[2] + (s1 \div Base)
      s3 == a[3] + b[3] + (s2 \div Base)
      s4 == a[4] + b[4] + (s3 \div Base)
  IN <<s1 % Base, s2 % Base, s3 % Base, s4 % Base, s4 \div Base>>

Sub4(a, b) ==
  LET t1 == a[1] - b[1]
      t2 == a[2] - b[2] - (IF t1 < 0 THEN 1 ELSE 0)
      t3 == a[3] - b[3] - (IF t2 < 0 THEN 1 ELSE 0)
      t4 == a[4] - b[4] - (IF t3 < 0 THEN 1 ELSE 0)
  IN <<(t1 + Base) % Base, (t2 + Base) % Base, (t3 + Base) % Base, t4>>

\* m + 1 for 2^52 <= m < 2^53, as a Number
Increment(neg, m, x) ==
  IF m[1] < Base - 1 THEN [neg |-> neg, m |-> <<m[1] + 1, m[2], m[3], m[4]>>, x |-> x]
  ELSE IF m[2] < Base - 1 THEN [neg |-> neg, m |-> <<0, m[2] + 1, m[3], m[4]>>, x |-> x]
  ELSE IF m[3] < Base - 1 THEN [neg |-> neg, m |-> <<0, 0, m[3] + 1, m[4]>>, x |-> x]
  ELSE IF m[4] + 1 < 2^11 THEN [neg |-> neg, m |-> <<0, 0, 0, m[4] + 1>>, x |-> x]
  ELSE [neg |-> neg, m |-> <<0, 0, 0, 2^10>>, x |-> x + 1]

\* the Number (-1)^neg * q * 2^x or the next one up, as the three bits low
\* that were below q say
Nearest(neg, q, low, x) ==
  IF low > 4 \/ (low = 4 /\ q[1] % 2 = 1) THEN Increment(neg, q, x)
  ELSE [neg |-> neg, m |-> q, x |-> x]

\* the Number nearest to (-1)^neg * g * 2^x for 2^55 <= g < 2^56
RoundGuard(neg, g, x) ==
  Nearest(neg,
          <<(g[1] \div 8) + (g[2] % 8) * 2^11, (g[2] \div 8) + (g[3] % 8) * 2^11,
            (g[3] \div 8) + (g[4] % 8) * 2^11, g[4] \div 8>>,
          g[1] % 8, x + 3)

\* the same for five limbs s < 2^57
RoundCarry(neg, s, x) ==
  RoundGuard(neg, IF s[5] = 0 THEN s ELSE ShrJam(s, 1), IF s[5] = 0 THEN x ELSE x + 1)

\* the same for any g < 2^56 that has lz high zero bits
RoundShifted(neg, g, x, lz) == RoundGuard(neg, Shl(g, lz), x - lz)

LeadingZeros(g) == IF g[4] >= 2^13 THEN 0 ELSE 4 * LimbBits - NBitLen(NNorm(g))

RoundLow(neg, g, x) == RoundShifted(neg, g, x, LeadingZeros(g))

\* |a| + |b| and |a| - |b| with the sign of a, for |a| >= |b| > 0 and, for
\* the difference, |a| > |b|
AddAbs(a, b) ==
  RoundCarry(a.neg, Add4(Shl(a.m, 3), ShrJam(Shl(b.m, 3), a.x - b.x)), a.x - 3)

SubAbs(a, b) ==
  RoundLow(a.neg, Sub4(Shl(a.m, 3), ShrJam(Shl(b.m, 3), a.x - b.x)), a.x - 3)

\* a + b for |a| >= |b|, same telling whether |a| = |b|
Ordered(a, b, same) ==
  IF IsZero(b) THEN a
  ELSE IF a.neg = b.neg THEN AddAbs(a, b)
  ELSE IF same THEN Zero
  ELSE SubAbs(a, b)

Swapped(a, b, c) == Ordered(IF c < 0 THEN b ELSE a, IF c < 0 THEN a ELSE b, c = 0)

\* the operators +, -, *, / of the language
Add(a, b) == Swapped(a, b, CmpAbs(a, b))

Sub(a, b) == Add(a, Neg(b))

\* the eight limbs of a * b for four-limb a and b
Product(a, b) ==
  LET t1 == a[1] * b[1]
      t2 == a[1] * b[2] + a[2] * b[1] + (t1 \div Base)
      t3 == a[1] * b[3] + a[2] * b[2] + a[3] * b[1] + (t2 \div Base)
      t4 == a[1] * b[4] + a[2] * b[3] + a[3] * b[2] + a[4] * b[1] + (t3 \div Base)
      t5 == a[2] * b[4] + a[3] * b[3] + a[4] * b[2] + (t4 \div Base)
      t6 == a[3] * b[4] + a[4] * b[3] + (t5 \div Base)
      t7 == a[4] * b[4] + (t6 \div Base)
  IN <<t1 % Base, t2 % Base, t3 % Base, t4 % Base, t5 % Base, t6 % Base,
       t7 % Base, t7 \div Base>>

\* the Number nearest to (-1)^neg * p * 2^x for 2^104 <= p < 2^106
RoundProduct(neg, p, x) ==
  RoundGuard(neg, ShrJam(p, IF p[8] >= 2^7 THEN 50 ELSE 49),
             x + (IF p[8] >= 2^7 THEN 50 ELSE 49))

Mul(a, b) ==
  IF IsZero(a) \/ IsZero(b) THEN Zero
  ELSE RoundProduct(a.neg # b.neg, Product(a.m, b.m), a.x + b.x)

\* the Number nearest to (-1)^neg * (q or a little more) * 2^(x + 1), for a
\* quotient q of Precision + 2 bits or more
RoundQuotient(neg, d, x) ==
  Round(neg, NAdd(NShiftLeft(d.q, 1), IF d.exact THEN << >> ELSE <<1>>), x)

\* a / (-1)^neg * odd * 2^x for a # 0 and the k bits given
DivideBy(a, neg, odd, x, k) ==
  RoundQuotient(a.neg # neg, NDiv(NShiftLeft(a.m, k), odd), a.x - x - k - 1)

DivideOdd(a, neg, odd, x) == DivideBy(a, neg, odd, x, NBitLen(odd) + 3)

DivideShifted(a, b, t) == DivideOdd(a, b.neg, NShiftRight(b.m, t), b.x + t)

\* a / b for b # 0, through the odd part of b.m
Div(a, b) == IF IsZero(a) THEN Zero ELSE DivideShifted(a, b, NTrailingZeros(b.m))

IsInteger(a) == IsZero(a) \/ a.x >= 0 \/ NLowZero(a.m, -a.x)

\* Math.round: the integer nearest to a, a tie going up
MathRound(a) ==
  IF IsInteger(a) THEN a
  ELSE IF NBit(a.m, -a.x - 1) = 1 /\ (~a.neg \/ ~NLowZero(a.m, -a.x - 1))
  THEN Round(a.neg, NAdd(NShiftRight(a.m, -a.x), <<1>>), 0)
  ELSE Round(a.neg, NShiftRight(a.m, -a.x), 0)

\* n * 2^x with the s low bits of n cut off, and whether bits were lost
CutBy(n, x, lost, s) ==
  IF s <= 0 THEN [n |-> n, x |-> x, lost |-> lost]
  ELSE [n |-> NShiftRight(n, s), x |-> x + s, lost |-> lost \/ ~NLowZero(n, s)]

\* n * 2^x cut down to GuardBits bits
Cut(n, x, lost) == CutBy(n, x, lost, NBitLen(n) - GuardBits)

Square(h) == Cut(NMul(h.n, h.n), 2 * h.x, h.lost)

Times(h, b) == Cut(NMul(h.n, b.m), h.x + b.x, h.lost)

\* b^k for b > 0 and k >= 1 by squaring, to GuardBits bits from below
RECURSIVE Power(_, _)
Power(b, k) ==
  IF k = 1 THEN [n |-> b.m, x |-> b.x, lost |-> FALSE]
  ELSE IF k % 2 = 0 THEN Square(Power(b, k \div 2))
  ELSE Times(Square(Power(b, k \div 2)), b)

\* the Number p is, or one of the two Numbers around it
Around(p, s, above) ==
  IF ~p.lost /\ (s <= 0 \/ NLowZero(p.n, s)) THEN Round(FALSE, p.n, p.x)
  ELSE IF above THEN Round(FALSE, NAdd(NShiftRight(p.n, s), <<1>>), p.x + s)
  ELSE Round(FALSE, NShiftRight(p.n, s), p.x + s)

PowerAround(p, above) == Around(p, NBitLen(p.n) - Precision, above)

\* Math.pow(b, k) for b > 0 and an integer k >= 0.  The language leaves the
\* result implementation-approximated: it is 1 for k = 0, the power itself
\* when that is a Number, and otherwise one of the two Numbers around the
\* power, above telling which
MathPow(b, k, above) == IF k = 0 THEN One ELSE PowerAround(Power(b, k), above)

\* the Number a decimal literal n/d denotes (parseFloat, and the literals of
\* the source): the Number nearest to it
Decimal(n, d) == Div(FromInt(n), FromInt(d))

(***************************************************************************)
(* sipUtils (SIPCalculator.jsx, lines 5-99).  years is an integer >= 0 in  *)
(* every call of the model, so that years * 12 and the loop bounds are     *)
(* machine integers.  The locals of a function are one record.             *)
(***************************************************************************)
\* annualReturn / 12 / 100
MonthlyRate(annualReturn) == Div(Div(annualReturn, FromInt(12)), FromInt(100))

\* a month that loses the balance: contribution * (1 + monthlyRate)
CompoundOverwrite(totalValue, contribution, monthlyRate) ==
  Mul(contribution, Add(One, monthlyRate))

\* one month: (totalValue + contribution) * (1 + monthlyRate)
Compound(totalValue, contribution, monthlyRate) ==
  Mul(Add(totalValue, contribution), Add(One, monthlyRate))

\* the months month..12 of one year at one contribution, next being the
\* value after the month before
RECURSIVE MonthLoop(_, _, _, _)
MonthNext(next, contribution, monthlyRate, month) ==
  Strictly(next, MonthLoop(next, contribution, monthlyRate, month))

MonthLoop(totalValue, contribution, monthlyRate, month) ==
  IF month > 12 THEN totalValue
  ELSE MonthNext(Compound(totalValue, contribution, monthlyRate), contribution,
                 monthlyRate, month + 1)

\* the months month..12 of  acc += x
RECURSIVE Accumulate(_, _, _)
AccumulateNext(next, x, month) == Strictly(next, Accumulate(next, x, month))

Accumulate(acc, x, month) ==
  IF month > 12 THEN acc ELSE AccumulateNext(Add(acc, x), x, month + 1)

\* a step down by the same percentage
StepDown(currentMonthlyInvestment, stepUpPercent) ==
  Mul(currentMonthlyInvestment, Sub(One, Div(stepUpPercent, FromInt(100))))

\* currentMonthlyInvestment *= (1 + stepUpPercent / 100)
StepUp(currentMonthlyInvestment, stepUpPercent) ==
  Mul(currentMonthlyInvestment, Add(One, Div(stepUpPercent, FromInt(100))))

\* the closed form without its last factor: payments at the end of the month
AnnuityImmediate(monthlyInvestment, monthlyRate, months, above) ==
  Div(Mul(monthlyInvestment,
          Sub(MathPow(Add(One, monthlyRate), months, above), One)),
      monthlyRate)

\* the closed form of calculateNormalSIP for a rate that is not zero
Annuity(monthlyInvestment, monthlyRate, months, above) ==
  Mul(Div(Mul(monthlyInvestment,
              Sub(MathPow(Add(One, monthlyRate), months, above), One)),
          monthlyRate),
      Add(One, monthlyRate))

\* a zero-rate branch that counts the years for months
NormalSIPByYears(monthlyInvestment, monthlyRate, months, above) ==
  IF IsZero(monthlyRate) THEN Mul(monthlyInvestment, FromInt(months \div 12))
  ELSE Annuity(monthlyInvestment, monthlyRate, months, above)

NormalSIP(monthlyInvestment, monthlyRate, months, above) ==
  IF IsZero(monthlyRate) THEN Mul(monthlyInvestment, FromInt(months))
  ELSE Annuity(monthlyInvestment, monthlyRate, months, above)

calculateNormalSIP(monthlyInvestment, annualReturn, years, above) ==
  NormalSIP(monthlyInvestment, MonthlyRate(annualReturn), years * 12, above)

\* locals on entry that already hold the first contribution
StepUpEntryFunded(monthlyInvestment, annualReturn) ==
  [monthlyRate |-> MonthlyRate(annualReturn),
   totalValue |-> monthlyInvestment,
   currentMonthlyInvestment |-> monthlyInvestment]

\* calculateStepUpSIP: its locals on entry, and one pass of its year loop
StepUpEntry(monthlyInvestment, annualReturn) ==
  [monthlyRate |-> MonthlyRate(annualReturn),
   totalValue |-> Zero,
   currentMonthlyInvestment |-> monthlyInvestment]

StepUpYear(l, stepUpPercent) ==
  [monthlyRate |-> l.monthlyRate,
   totalValue |-> MonthLoop(l.totalValue, l.currentMonthlyInvestment, l.monthlyRate, 1),
   currentMonthlyInvestment |-> StepUp(l.currentMonthlyInvestment, stepUpPercent)]

\* the passes lo..hi of the year loop of calculateStepUpSIP
RECURSIVE StepUpYears(_, _, _, _)
StepUpYears(l, stepUpPercent, lo, hi) ==
  IF lo > hi THEN l
  ELSE IF lo = hi THEN StepUpYear(l, stepUpPercent)
  ELSE LET first == StepUpYears(l, stepUpPercent, lo, (lo + hi) \div 2)
       IN Strictly(first, StepUpYears(first, stepUpPercent, ((lo + hi) \div 2) + 1, hi))

calculateStepUpSIP(monthlyInvestment, annualReturn, years, stepUpPercent) ==
  StepUpYears(StepUpEntry(monthlyInvestment, annualReturn), stepUpPercent, 1, years).totalValue

\* generateYearlyBreakdown: its locals on entry, the month loop of one pass,
\* the record pushed, and the rest of the pass
BreakdownEntry(monthlyInvestment, annualReturn) ==
  [monthlyRate |-> MonthlyRate(annualReturn),
   totalValue |-> Zero,
   totalInvested |-> Zero,
   yearlyInvestment |-> Zero,
   currentMonthlyInvestment |-> monthlyInvestment,
   breakdown |-> << >>]

\* month loops that leave the first month out of totalInvested, and out of
\* yearlyInvestment
BreakdownMonthsLateTotal(l) ==
  [l EXCEPT !.totalValue = MonthLoop(@, l.currentMonthlyInvestment, l.monthlyRate, 1),
            !.yearlyInvestment = Accumulate(Zero, l.currentMonthlyInvestment, 1),
            !.totalInvested = Accumulate(@, l.currentMonthlyInvestment, 2)]

BreakdownMonthsLateYear(l) ==
  [l EXCEPT !.totalValue = MonthLoop(@, l.currentMonthlyInvestment, l.monthlyRate, 1),
            !.yearlyInvestment = Accumulate(Zero, l.currentMonthlyInvestment, 2),
            !.totalInvested = Accumulate(@, l.currentMonthlyInvestment, 1)]

BreakdownMonths(l) ==
  [l EXCEPT !.totalValue = MonthLoop(@, l.currentMonthlyInvestment, l.monthlyRate, 1),
            !.yearlyInvestment = Accumulate(Zero, l.currentMonthlyInvestment, 1),
            !.totalInvested = Accumulate(@, l.currentMonthlyInvestment, 1)]

\* a record whose returns is the value itself
YearRecordGross(l, year) ==
  [year |-> year,
   monthlyInvestment |-> MathRound(l.currentMonthlyInvestment),
   yearlyInvestment |-> MathRound(l.yearlyInvestment),
   totalInvested |-> MathRound(l.totalInvested),
   yearEndValue |-> MathRound(l.totalValue),
   returns |-> MathRound(l.totalValue)]

YearRecord(l, year) ==
  [year |-> year,
   monthlyInvestment |-> MathRound(l.currentMonthlyInvestment),
   yearlyInvestment |-> MathRound(l.yearlyInvestment),
   totalInvested |-> MathRound(l.totalInvested),
   yearEndValue |-> MathRound(l.totalValue),
   returns |-> MathRound(Sub(l.totalValue, l.totalInvested))]

\* a pass that puts its record in front of the earlier ones
BreakdownUnshift(l, year, stepUpPercent) ==
  [l EXCEPT !.breakdown = <<YearRecord(l, year)>> \o @,
            !.currentMonthlyInvestment = StepUp(@, stepUpPercent)]

BreakdownPush(l, year, stepUpPercent) ==
  [l EXCEPT !.breakdown = Append(@, YearRecord(l, year)),
            !.currentMonthlyInvestment = StepUp(@, stepUpPercent)]

\* a pass that carries on from the value it reported
BreakdownYearRounded(l, year, stepUpPercent) ==
  [BreakdownPush(BreakdownMonths(l), year, stepUpPercent)
     EXCEPT !.totalValue = MathRound(@)]

BreakdownYear(l, year, stepUpPercent) ==
  BreakdownPush(BreakdownMonths(l), year, stepUpPercent)

\* the passes lo..hi of the year loop of generateYearlyBreakdown
RECURSIVE BreakdownYears(_, _, _, _)
BreakdownYears(l, stepUpPercent, lo, hi) ==
  IF lo > hi THEN l
  ELSE IF lo = hi THEN BreakdownYear(l, lo, stepUpPercent)
  ELSE LET first == BreakdownYears(l, stepUpPercent, lo, (lo + hi) \div 2)
       IN Strictly(first, BreakdownYears(first, stepUpPercent, ((lo + hi) \div 2) + 1, hi))

generateYearlyBreakdown(monthlyInvestment, annualReturn, years, stepUpPercent) ==
  BreakdownYears(BreakdownEntry(monthlyInvestment, annualReturn), stepUpPercent, 1, years).breakdown

\* a stride of a hundredth of the years, and a sampling without the last year
SampledByHundredth(year, years) == year % Max(1, years \div 100) = 0 \/ year = years

SampledOnStride(year, years) == year % Max(1, years \div 10) = 0

\* year % Math.max(1, Math.floor(years / 10)) === 0 || year === years
Sampled(year, years) == year % Max(1, years \div 10) = 0 \/ year = years

\* generateChartData: its locals on entry, the month loop of one pass, and
\* the rest of the pass
ChartEntry(monthlyInvestment, annualReturn) ==
  [monthlyRate |-> MonthlyRate(annualReturn),
   normalValue |-> Zero,
   stepUpValue |-> Zero,
   stepUpMonthly |-> monthlyInvestment,
   data |-> << >>]

ChartMonths(l, monthlyInvestment) ==
  [l EXCEPT !.normalValue = MonthLoop(@, monthlyInvestment, l.monthlyRate, 1),
            !.stepUpValue = MonthLoop(@, l.stepUpMonthly, l.monthlyRate, 1)]

ChartPush(l, year, years, stepUpPercent) ==
  [l EXCEPT !.data = IF Sampled(year, years)
                     THEN Append(@, [year |-> year,
                                     NormalSIP |-> MathRound(l.normalValue),
                                     StepUpSIP |-> MathRound(l.stepUpValue)])
                     ELSE @,
            !.stepUpMonthly = StepUp(@, stepUpPercent)]

ChartYear(l, year, monthlyInvestment, years, stepUpPercent) ==
  ChartPush(ChartMonths(l, monthlyInvestment), year, years, stepUpPercent)

\* the passes lo..hi of the year loop of generateChartData
RECURSIVE ChartYears(_, _, _, _, _, _)
ChartYears(l, monthlyInvestment, years, stepUpPercent, lo, hi) ==
  IF lo > hi THEN l
  ELSE IF lo = hi THEN ChartYear(l, lo, monthlyInvestment, years, stepUpPercent)
  ELSE LET first == ChartYears(l, monthlyInvestment, years, stepUpPercent, lo, (lo + hi) \div 2)
       IN Strictly(first, ChartYears(first, monthlyInvestment, years, stepUpPercent, ((lo + hi) \div 2) + 1, hi))

generateChartData(monthlyInvestment, annualReturn, years, stepUpPercent) ==
  ChartYears(ChartEntry(monthlyInvestment, annualReturn), monthlyInvestment, years,
             stepUpPercent, 1, years).data

(***************************************************************************)
(* The parameter form (SIPCalculator.jsx, lines 100-204 and 300-348).  The *)
(* text of an input element is a sequence of characters.                   *)
(***************************************************************************)
\* what is not a Number
NaN == [nan |-> TRUE]

Digits == <<"0", "1", "2", "3", "4", "5", "6", "7", "8", "9">>

IsDigit(c) == \E d \in 1..Len(Digits) : Digits[d] = c

DigitOf(c) == (CHOOSE d \in 1..Len(Digits) : Digits[d] = c) - 1

\* the number of digits of text from position i on
RECURSIVE DigitRun(_, _)
DigitRun(text, i) ==
  IF i <= Len(text) /\ IsDigit(text[i]) THEN 1 + DigitRun(text, i + 1) ELSE 0

\* the natural the n digits of text from position i on spell
RECURSIVE DigitsValue(_, _, _)
DigitsValue(text, i, n) ==
  IF n = 0 THEN 0 ELSE DigitsValue(text, i, n - 1) * 10 + DigitOf(text[i + n - 1])

\* the Number nearest to the decimal with the given sign, digits and place
Literal(neg, text, start, whole, frac) ==
  IF whole + frac = 0 THEN NaN
  ELSE IF neg
  THEN Neg(Decimal(DigitsValue(text, start, whole) * 10^frac
                     + DigitsValue(text, start + whole + 1, frac), 10^frac))
  ELSE Decimal(DigitsValue(text, start, whole) * 10^frac
                 + DigitsValue(text, start + whole + 1, frac), 10^frac)

Fraction(neg, text, start, whole) ==
  Literal(neg, text, start, whole,
          IF start + whole <= Len(text) /\ text[start + whole] = "."
          THEN DigitRun(text, start + whole + 1) ELSE 0)

Unsigned(neg, text, start) == Fraction(neg, text, start, DigitRun(text, start))

\* parseFloat of a text made of a sign, digits and a point: the Number its
\* longest numeric prefix spells, NaN when there is none.  Exponents, white
\* space and Infinity are left out
ParseFloat(text) ==
  IF text # << >> /\ text[1] = "-" THEN Unsigned(TRUE, text, 2)
  ELSE Unsigned(FALSE, text, 1)

\* a || b for a Number or NaN a
OrElse(a, b) == IF a = NaN \/ IsZero(a) THEN b ELSE a

\* the integer a whole Number a >= 0 is
RECURSIVE NToInt(_)
NToInt(n) == IF n = << >> THEN 0 ELSE n[1] + Base * NToInt(Tail(n))

Whole(a) == IF IsZero(a) THEN 0 ELSE NToInt(NShiftRight(a.m, -a.x))

Params == {"monthlyInvestment", "annualReturn", "duration", "stepUpPercent",
           "inflationRate"}

\* the min and max every InputSlider is given
Range ==
  [monthlyInvestment |-> [min |-> FromInt(500), max |-> FromInt(100000)],
   annualReturn |-> [min |-> FromInt(1), max |-> FromInt(30)],
   duration |-> [min |-> FromInt(1), max |-> FromInt(40)],
   stepUpPercent |-> [min |-> FromInt(0), max |-> FromInt(30)],
   inflationRate |-> [min |-> FromInt(0), max |-> FromInt(15)]]

\* the initial state of the five parameters
Defaults ==
  [monthlyInvestment |-> FromInt(5000),
   annualReturn |-> FromInt(12),
   duration |-> FromInt(10),
   stepUpPercent |-> FromInt(10),
   inflationRate |-> FromInt(6)]

\* dependencies that leave inflationRate out
DepsWithoutInflation(p) ==
  <<p.monthlyInvestment, p.annualReturn, p.duration, p.stepUpPercent>>

\* the dependencies of the effect
Deps(p) ==
  <<p.monthlyInvestment, p.annualReturn, p.duration, p.stepUpPercent, p.inflationRate>>

\* a value the effect computes through Math.pow at an exponent that is not
\* whole: the value is not worked out, the term says which computation on
\* which inputs it is the result of
Discounted(what, amount, stepUpPercent, inflationRate, duration) ==
  [term |-> what, amount |-> amount, stepUpPercent |-> stepUpPercent,
   inflationRate |-> inflationRate, duration |-> duration]

\* one pass of the effect's loop over the years: stepUpTotalInvested
ContributionYear(l, stepUpPercent) ==
  [stepUpTotalInvested |-> Accumulate(l.stepUpTotalInvested, l.currentMonthly, 1),
   currentMonthly |-> StepUp(l.currentMonthly, stepUpPercent)]

\* the passes lo..hi of that loop
RECURSIVE ContributionYears(_, _, _, _)
ContributionYears(l, stepUpPercent, lo, hi) ==
  IF lo > hi THEN l
  ELSE IF lo = hi THEN ContributionYear(l, stepUpPercent)
  ELSE LET first == ContributionYears(l, stepUpPercent, lo, (lo + hi) \div 2)
       IN Strictly(first, ContributionYears(first, stepUpPercent, ((lo + hi) \div 2) + 1, hi))

StepUpTotalInvested(monthlyInvestment, years, stepUpPercent) ==
  ContributionYears([stepUpTotalInvested |-> Zero, currentMonthly |-> monthlyInvestment],
                    stepUpPercent, 1, years).stepUpTotalInvested

\* the two summaries of setResults
Summary(futureValue, totalInvested, what, amount, stepUpPercent, inflationRate, duration) ==
  [futureValue |-> futureValue,
   totalInvested |-> totalInvested,
   totalInvestedInflationAdjusted |->
     Discounted(what, amount, stepUpPercent, inflationRate, duration),
   returns |-> Sub(futureValue, totalInvested),
   inflationAdjusted |->
     Discounted("calculateInflationAdjusted", futureValue, Zero, inflationRate, duration),
   realReturns |->
     Discounted("realReturns", futureValue, stepUpPercent, inflationRate, duration)]

NormalSummary(p, above) ==
  Summary(calculateNormalSIP(p.monthlyInvestment, p.annualReturn, Whole(p.duration),
                             above),
          Mul(Mul(p.monthlyInvestment, p.duration), FromInt(12)),
          "normalTotalInvestedPV", p.monthlyInvestment, Zero, p.inflationRate,
          p.duration)

StepUpSummary(p) ==
  Summary(calculateStepUpSIP(p.monthlyInvestment, p.annualReturn, Whole(p.duration),
                             p.stepUpPercent),
          StepUpTotalInvested(p.monthlyInvestment, Whole(p.duration), p.stepUpPercent),
          "stepUpTotalInvestedPV", p.monthlyInvestment, p.stepUpPercent,
          p.inflationRate, p.duration)

\* what the effect may hand to setResults for the parameters p: Math.pow
\* giving either of the Numbers around the power
Outcomes(p, stepUpSummary) ==
  {[normal |-> NormalSummary(p, above), stepUp |-> stepUpSummary] : above \in BOOLEAN}

Results(p) == Outcomes(p, StepUpSummary(p))

(***************************************************************************)
(* The engine under examination: one behaviour makes the four calls of the *)
(* effect on one argument list, a step being one pass of a year loop.      *)
(***************************************************************************)
VARIABLES
  args,        \* monthlyInvestment, annualReturn, years, stepUpPercent
  pc,          \* the function being run
  year,        \* its loop variable
  stepUp,      \* the locals of calculateStepUpSIP
  chart,       \* the locals of generateChartData
  yearly,      \* the locals of generateYearlyBreakdown
  stepUpSIP,   \* what calculateStepUpSIP returned
  normalSIP    \* what calculateNormalSIP returned

engineVars == <<args, pc, year, stepUp, chart, yearly, stepUpSIP, normalSIP>>

\* the state of the SIPCalculator component
VARIABLES
  params,           \* monthlyInvestment, annualReturn, duration, stepUpPercent,
                    \* inflationRate
  results,
  chartData,
  yearlyBreakdown,
  deps              \* the dependencies the effect last ran with

formVars == <<params, results, chartData, yearlyBreakdown, deps>>

vars == <<engineVars, formVars>>

\* the component before its first effect
Mounted ==
  /\ params = Defaults
  /\ results = [null |-> TRUE]
  /\ chartData = << >>
  /\ yearlyBreakdown = << >>
  /\ deps = << >>

MaxYears == 4

MaxHorizon == 41

Investments == {Zero, Decimal(1, 100), FromInt(500), FromInt(5000)}

Returns == {Zero, FromInt(12), Decimal(15, 2)}

StepUps == {Zero, FromInt(3), FromInt(10), FromInt(-100)}

Decades == {10, 20, 40}

\* the arguments examined: every combination over a few years, the form's
\* initial values over every horizon up to MaxHorizon, the same without
\* step-up over the Decades, and a tenth a month at a zero rate
Inputs ==
  [monthlyInvestment : Investments, annualReturn : Returns,
   years : 0..MaxYears, stepUpPercent : StepUps]
  \cup [monthlyInvestment : {FromInt(5000)}, annualReturn : {FromInt(12)},
        years : (MaxYears + 1)..MaxHorizon, stepUpPercent : {FromInt(10)}]
  \cup [monthlyInvestment : {FromInt(5000)}, annualReturn : {FromInt(12)},
        years : Decades, stepUpPercent : {Zero}]
  \cup [monthlyInvestment : {Decimal(1, 10)}, annualReturn : {Zero},
        years : 1..MaxYears, stepUpPercent : {Zero}]

Init ==
  /\ args \in Inputs
  /\ pc = "calculateStepUpSIP"
  /\ year = 1
  /\ stepUp = StepUpEntry(args.monthlyInvestment, args.annualReturn)
  /\ chart = ChartEntry(args.monthlyInvestment, args.annualReturn)
  /\ yearly = BreakdownEntry(args.monthlyInvestment, args.annualReturn)
  /\ stepUpSIP = Zero
  /\ normalSIP = Zero
  /\ Mounted

\* calculateStepUpSIP: one pass of the year loop
StepUpPass ==
  /\ pc = "calculateStepUpSIP"
  /\ year <= args.years
  /\ stepUp' = StepUpYear(stepUp, args.stepUpPercent)
  /\ year' = year + 1
  /\ UNCHANGED <<args, pc, chart, yearly, stepUpSIP, normalSIP, formVars>>

\* calculateStepUpSIP returns totalValue; generateChartData is called
StepUpReturn ==
  /\ pc = "calculateStepUpSIP"
  /\ year > args.years
  /\ stepUpSIP' = stepUp.totalValue
  /\ pc' = "generateChartData"
  /\ year' = 1
  /\ UNCHANGED <<args, stepUp, chart, yearly, normalSIP, formVars>>

\* generateChartData: one pass of the year loop
ChartPass ==
  /\ pc = "generateChartData"
  /\ year <= args.years
  /\ chart' = ChartYear(chart, year, args.monthlyInvestment, args.years,
                        args.stepUpPercent)
  /\ year' = year + 1
  /\ UNCHANGED <<args, pc, stepUp, yearly, stepUpSIP, normalSIP, formVars>>

\* generateChartData returns data; generateYearlyBreakdown is called
ChartReturn ==
  /\ pc = "generateChartData"
  /\ year > args.years
  /\ pc' = "generateYearlyBreakdown"
  /\ year' = 1
  /\ UNCHANGED <<args, stepUp, chart, yearly, stepUpSIP, normalSIP, formVars>>

\* generateYearlyBreakdown: one pass of the year loop
BreakdownPass ==
  /\ pc = "generateYearlyBreakdown"
  /\ year <= args.years
  /\ yearly' = BreakdownYear(yearly, year, args.stepUpPercent)
  /\ year' = year + 1
  /\ UNCHANGED <<args, pc, stepUp, chart, stepUpSIP, normalSIP, formVars>>

\* generateYearlyBreakdown returns breakdown
BreakdownReturn ==
  /\ pc = "generateYearlyBreakdown"
  /\ year > args.years
  /\ pc' = "calculateNormalSIP"
  /\ UNCHANGED <<args, year, stepUp, chart, yearly, stepUpSIP, normalSIP, formVars>>

\* calculateNormalSIP, Math.pow giving either of the Numbers around the power
NormalCall ==
  /\ pc = "calculateNormalSIP"
  /\ \E above \in BOOLEAN :
       normalSIP' = calculateNormalSIP(args.monthlyInvestment, args.annualReturn,
                                       args.years, above)
  /\ pc' = "done"
  /\ UNCHANGED <<args, year, stepUp, chart, yearly, stepUpSIP, formVars>>

\* the effect's totals and its setResults, on what the calls returned
SetResults ==
  /\ pc = "done"
  /\ results' =
       [normal |-> Summary(normalSIP,
                           Mul(Mul(args.monthlyInvestment, FromInt(args.years)),
                               FromInt(12)),
                           "normalTotalInvestedPV", args.monthlyInvestment, Zero,
                           params.inflationRate, FromInt(args.years)),
        stepUp |-> Summary(stepUpSIP,
                           StepUpTotalInvested(args.monthlyInvestment, args.years,
                                               args.stepUpPercent),
                           "stepUpTotalInvestedPV", args.monthlyInvestment,
                           args.stepUpPercent, params.inflationRate,
                           FromInt(args.years))]
  /\ pc' = "setResults"
  /\ UNCHANGED <<args, year, stepUp, chart, yearly, stepUpSIP, normalSIP, params, chartData, yearlyBreakdown, deps>>

Next ==
  \/ StepUpPass
  \/ StepUpReturn
  \/ ChartPass
  \/ ChartReturn
  \/ BreakdownPass
  \/ BreakdownReturn
  \/ NormalCall
  \/ SetResults

Spec == Init /\ [][Next]_vars

(***************************************************************************)
(* The form under examination: the five parameters change through the      *)
(* range sliders and the number boxes, and the effect runs after a render  *)
(* in which a dependency has changed.  An effect that is due runs before   *)
(* the next input event is handled.                                        *)
(***************************************************************************)
\* what a range slider may hold: values on its step between its min and max
SliderTexts ==
  [monthlyInvestment |-> {<<"5", "0", "0", "0">>},
   annualReturn |-> {<<"1">>, <<"1", "2">>},
   duration |-> {<<"1">>, <<"1", "0">>},
   stepUpPercent |-> {<<"0">>, <<"1", "0">>},
   inflationRate |-> {<<"0">>, <<"6">>}]

\* what is typed into a number box
BoxTexts ==
  [monthlyInvestment |-> {<<"-", "5", "0", "0">>},
   annualReturn |-> {<<"0">>},
   duration |-> {<< >>},
   stepUpPercent |-> {<<"-">>},
   inflationRate |-> {<<"6", ".", "0", "0">>}]

\* a render has left the effect to run
Pending == deps # Deps(params)

FormInit ==
  /\ Mounted
  /\ args = [monthlyInvestment |-> Zero, annualReturn |-> Zero, years |-> 0,
             stepUpPercent |-> Zero]
  /\ pc = "done"
  /\ year = 1
  /\ stepUp = StepUpEntry(Zero, Zero)
  /\ chart = ChartEntry(Zero, Zero)
  /\ yearly = BreakdownEntry(Zero, Zero)
  /\ stepUpSIP = Zero
  /\ normalSIP = Zero

\* the range input of the InputSlider of parameter f changes to text
SliderChange(f, text) ==
  /\ ~Pending
  /\ params' = [params EXCEPT ![f] = ParseFloat(text)]
  /\ UNCHANGED <<engineVars, results, chartData, yearlyBreakdown, deps>>

\* the number input of the InputSlider of parameter f changes to text
NumberBoxChange(f, text) ==
  /\ ~Pending
  /\ params' = [params EXCEPT ![f] = OrElse(ParseFloat(text), Range[f].min)]
  /\ UNCHANGED <<engineVars, results, chartData, yearlyBreakdown, deps>>

\* the effect
RunEffect ==
  /\ Pending
  /\ chartData' = generateChartData(params.monthlyInvestment, params.annualReturn,
                                    Whole(params.duration), params.stepUpPercent)
  /\ yearlyBreakdown' = generateYearlyBreakdown(params.monthlyInvestment,
                                                params.annualReturn,
                                                Whole(params.duration),
                                                params.stepUpPercent)
  /\ results' \in Results(params)
  /\ deps' = Deps(params)
  /\ UNCHANGED <<engineVars, params>>

FormNext ==
  \/ \E f \in Params : \E text \in SliderTexts[f] : SliderChange(f, text)
  \/ \E f \in Params : \E text \in BoxTexts[f] : NumberBoxChange(f, text)
  \/ RunEffect

\* a run of the effect as deps shows it: RunEffect is the one action that
\* changes deps, so that these are the steps of RunEffect
EffectRuns == Pending /\ deps' = Deps(params)

\* an effect that is left to run does run
FormSpec == FormInit /\ [][FormNext]_vars /\ WF_deps(EffectRuns)

(***************************************************************************)
(* The properties examined, over the calls of Spec.                        *)
(***************************************************************************)
Abs(a) == [a EXCEPT !.neg = FALSE]

\* 2^-30
Tolerance == [neg |-> FALSE, m |-> One.m, x |-> One.x - 30]

\* a and b differ by no more than Tolerance * |b|
Close(a, b) == Le(Abs(Sub(a, b)), Mul(Tolerance, Abs(b)))

\* a and b differ by no more than the integer k
Within(a, b, k) == Le(Abs(Sub(a, b)), FromInt(k))

\* generateChartData, and generateYearlyBreakdown, has returned
ChartReturned ==
  pc \in {"generateYearlyBreakdown", "calculateNormalSIP", "done", "setResults"}

BreakdownReturned == pc \in {"calculateNormalSIP", "done", "setResults"}

\* C1 as stated: without step-up calculateStepUpSIP returns what
\* calculateNormalSIP returns, exactly at a zero rate and within rounding
\* tolerance otherwise
C1_AsStated ==
  (pc = "done" /\ IsZero(args.stepUpPercent)) =>
    IF IsZero(args.annualReturn) THEN stepUpSIP = normalSIP
    ELSE Close(stepUpSIP, normalSIP)

\* C1 as amended: without step-up calculateStepUpSIP returns what
\* calculateNormalSIP returns within a relative 2^-30, at a zero rate too,
\* and exactly that at a zero rate when monthlyInvestment is a whole number
C1_ZeroStepUp ==
  (pc = "done" /\ IsZero(args.stepUpPercent)) =>
    /\ Close(stepUpSIP, normalSIP)
    /\ (IsZero(args.annualReturn) /\ IsInteger(args.monthlyInvestment))
         => stepUpSIP = normalSIP

C1_Witness ==
  /\ pc = "done"
  /\ IsZero(args.stepUpPercent)
  /\ ~IsZero(args.annualReturn)
  /\ args.years = 40
  /\ stepUpSIP # normalSIP
  /\ Close(stepUpSIP, normalSIP)

\* C2 as stated: with years = 0 or monthlyInvestment = 0 both future values
\* are 0 and the breakdown and the chart data are empty
C2_AsStated ==
  (pc = "done" /\ (args.years = 0 \/ IsZero(args.monthlyInvestment))) =>
    /\ IsZero(normalSIP)
    /\ IsZero(stepUpSIP)
    /\ yearly.breakdown = << >>
    /\ chart.data = << >>

\* C2 as amended: with years = 0 both future values are 0 and the breakdown
\* and the chart data are empty; with monthlyInvestment = 0 and years >= 1
\* both future values are 0, the breakdown has a record for each year and the
\* chart data its sampled points, every amount in them being 0
C2_Degenerate ==
  pc = "done" =>
    /\ args.years = 0 =>
         /\ IsZero(normalSIP)
         /\ IsZero(stepUpSIP)
         /\ yearly.breakdown = << >>
         /\ chart.data = << >>
    /\ (IsZero(args.monthlyInvestment) /\ args.years >= 1) =>
         /\ IsZero(normalSIP)
         /\ IsZero(stepUpSIP)
         /\ Len(yearly.breakdown) = args.years
         /\ chart.data # << >>
         /\ \A i \in 1..Len(yearly.breakdown) :
              /\ IsZero(yearly.breakdown[i].monthlyInvestment)
              /\ IsZero(yearly.breakdown[i].yearlyInvestment)
              /\ IsZero(yearly.breakdown[i].totalInvested)
              /\ IsZero(yearly.breakdown[i].yearEndValue)
              /\ IsZero(yearly.breakdown[i].returns)
         /\ \A i \in 1..Len(chart.data) :
              IsZero(chart.data[i].NormalSIP) /\ IsZero(chart.data[i].StepUpSIP)

C2_Witness ==
  /\ pc = "done"
  /\ IsZero(args.monthlyInvestment)
  /\ ~IsZero(args.annualReturn)
  /\ Len(yearly.breakdown) = MaxYears
  /\ Len(chart.data) = MaxYears

\* C3 as stated: for years >= 1 the chart data has at most 11 elements
C3_AsStated == (ChartReturned /\ args.years >= 1) => Len(chart.data) <= 11

\* C3 as amended: for years >= 1 the chart data has at most 19 elements,
\* whatever the horizon
C3_ChartLength == (ChartReturned /\ args.years >= 1) => Len(chart.data) <= 19

C3_Witness == ChartReturned /\ args.years >= 1 /\ Len(chart.data) = 19

\* C4: for years >= 1 the last element of the chart data has year = years,
\* and no other element has
C4_ChartEndpoint ==
  (ChartReturned /\ args.years >= 1) =>
    /\ chart.data # << >>
    /\ chart.data[Len(chart.data)].year = args.years
    /\ Cardinality({i \in 1..Len(chart.data) : chart.data[i].year = args.years}) = 1

C4_Witness ==
  /\ ChartReturned
  /\ args.years % Max(1, args.years \div 10) # 0
  /\ chart.data[Len(chart.data)].year = args.years

\* whether Ok(totalInvested of record y, the yearlyInvestment of the records
\* 1..y added up, y) for each of the records y.. of b, sum being the
\* yearlyInvestment of the records before y added up
RECURSIVE Conserved(_, _, _, _)
Conserved(Ok(_, _, _), b, y, sum) ==
  \/ y > Len(b)
  \/ LET next == Add(sum, b[y].yearlyInvestment)
     IN Ok(b[y].totalInvested, next, y) /\ Conserved(Ok, b, y + 1, next)

\* C5 as stated: the totalInvested of record y is the sum of the
\* yearlyInvestment of the records 1..y
C5_AsStated ==
  BreakdownReturned =>
    LET Ok(total, sum, y) == total = sum
    IN Conserved(Ok, yearly.breakdown, 1, Zero)

\* C5 as amended: the totalInvested of record 1 is its yearlyInvestment, and
\* that of record y is within (y + 1) div 2 of the sum of the yearlyInvestment
\* of the records 1..y
C5_Conservation ==
  BreakdownReturned =>
    LET Ok(total, sum, y) == IF y = 1 THEN total = sum
                             ELSE Within(total, sum, (y + 1) \div 2)
    IN Conserved(Ok, yearly.breakdown, 1, Zero)

C5_Witness ==
  /\ BreakdownReturned
  /\ Len(yearly.breakdown) = MaxYears
  /\ ~IsInteger(yearly.currentMonthlyInvestment)
  /\ LET Ok(total, sum, y) == y < MaxYears \/ (total # sum /\ Within(total, sum, 1))
     IN Conserved(Ok, yearly.breakdown, 1, Zero)

Increasing(b) ==
  \A i \in 1..(Len(b) - 1) : Lt(b[i].yearEndValue, b[i + 1].yearEndValue)

\* C6 as stated: for monthlyInvestment > 0 and annualReturn >= 0 the
\* yearEndValue of the records is strictly increasing
C6_AsStated ==
  (BreakdownReturned /\ Lt(Zero, args.monthlyInvestment) /\ Le(Zero, args.annualReturn))
    => Increasing(yearly.breakdown)

\* C6 as amended: for monthlyInvestment >= 1, annualReturn >= 0 and
\* stepUpPercent >= 0 the yearEndValue of the records is strictly increasing
C6_Growth ==
  (/\ BreakdownReturned
   /\ Le(One, args.monthlyInvestment)
   /\ Le(Zero, args.annualReturn)
   /\ Le(Zero, args.stepUpPercent))
    => Increasing(yearly.breakdown)

C6_Witness ==
  /\ BreakdownReturned
  /\ Le(One, args.monthlyInvestment)
  /\ IsZero(args.annualReturn)
  /\ IsZero(args.stepUpPercent)
  /\ Len(yearly.breakdown) = MaxYears
  /\ Increasing(yearly.breakdown)

\* the parameter f of the effect's last run lies in the range of its
\* InputSlider
InRange(f, v) == Le(Range[f].min, v) /\ Le(v, Range[f].max)

\* C7: every value of the five parameters the effect has called the engine
\* with lies in the range of its InputSlider, the duration being whole
C7_AsStated ==
  deps # << >> =>
    /\ InRange("monthlyInvestment", deps[1])
    /\ InRange("annualReturn", deps[2])
    /\ InRange("duration", deps[3]) /\ IsInteger(deps[3])
    /\ InRange("stepUpPercent", deps[4])
    /\ InRange("inflationRate", deps[5])

\* results, chartData and yearlyBreakdown are what the effect computes from
\* the parameters as they are
Fresh ==
  /\ chartData = generateChartData(params.monthlyInvestment, params.annualReturn,
                                   Whole(params.duration), params.stepUpPercent)
  /\ yearlyBreakdown = generateYearlyBreakdown(params.monthlyInvestment,
                                               params.annualReturn,
                                               Whole(params.duration),
                                               params.stepUpPercent)
  /\ results \in Results(params)

\* C8: a change of any of the five parameters leaves the effect to run,
\* whenever no effect is left to run results, chartData and yearlyBreakdown
\* are what the effect computes from the parameters as they are, and again
\* and again no effect is left to run
C8_Recomputed ==
  /\ [][params' # params => Pending']_vars
  /\ [](~Pending => Fresh)
  /\ []<>(~Pending)

C8_Witness ==
  /\ ~Pending
  /\ Fresh
  /\ \A f \in Params : params[f] # Defaults[f]

\* C9 as stated: the yearlyInvestment of a record is 12 times its
\* monthlyInvestment
C9_AsStated ==
  BreakdownReturned =>
    \A i \in 1..Len(yearly.breakdown) :
      yearly.breakdown[i].yearlyInvestment
        = Mul(FromInt(12), yearly.breakdown[i].monthlyInvestment)

\* C9 as amended: the yearlyInvestment of a record is within 6 of 12 times
\* its monthlyInvestment
C9_YearlyInvestment ==
  BreakdownReturned =>
    \A i \in 1..Len(yearly.breakdown) :
      Within(yearly.breakdown[i].yearlyInvestment,
             Mul(FromInt(12), yearly.breakdown[i].monthlyInvestment), 6)

C9_Witness ==
  /\ BreakdownReturned
  /\ \E i \in 1..Len(yearly.breakdown) :
       /\ Lt(Mul(FromInt(12), yearly.breakdown[i].monthlyInvestment),
             yearly.breakdown[i].yearlyInvestment)
       /\ Within(yearly.breakdown[i].yearlyInvestment,
                 Mul(FromInt(12), yearly.breakdown[i].monthlyInvestment), 6)

\* C10 as stated: the returns of a record is its yearEndValue less its
\* totalInvested
C10_AsStated ==
  BreakdownReturned =>
    \A i \in 1..Len(yearly.breakdown) :
      yearly.breakdown[i].returns
        = Sub(yearly.breakdown[i].yearEndValue, yearly.breakdown[i].totalInvested)

\* C10 as amended: the returns of a record is within 1 of its yearEndValue
\* less its totalInvested
C10_Returns ==
  BreakdownReturned =>
    \A i \in 1..Len(yearly.breakdown) :
      Within(yearly.breakdown[i].returns,
             Sub(yearly.breakdown[i].yearEndValue, yearly.breakdown[i].totalInvested), 1)

C10_Witness ==
  /\ BreakdownReturned
  /\ \E i \in 1..Len(yearly.breakdown) :
       /\ ~IsZero(yearly.breakdown[i].returns)
       /\ yearly.breakdown[i].returns
            # Sub(yearly.breakdown[i].yearEndValue, yearly.breakdown[i].totalInvested)
       /\ Within(yearly.breakdown[i].returns,
                 Sub(yearly.breakdown[i].yearEndValue,
                     yearly.breakdown[i].totalInvested), 1)

\* C11: generateYearlyBreakdown returns as many records as there are years,
\* record i having year i, and while it runs each pass appends one record
\* and leaves the records before it as they are
C11_Records ==
  /\ [](\A i \in 1..Len(yearly.breakdown) : yearly.breakdown[i].year = i)
  /\ [](pc = "generateYearlyBreakdown" => Len(yearly.breakdown) = year - 1)
  /\ [](BreakdownReturned => Len(yearly.breakdown) = args.years)
  /\ [][/\ Len(yearly.breakdown') \in {Len(yearly.breakdown), Len(yearly.breakdown) + 1}
        /\ SubSeq(yearly.breakdown', 1, Len(yearly.breakdown)) = yearly.breakdown]_vars

C11_Witness ==
  /\ BreakdownReturned
  /\ args.years = MaxHorizon
  /\ Len(yearly.breakdown) = MaxHorizon
  /\ yearly.breakdown[MaxHorizon].year = MaxHorizon

\* C12 as stated: at a zero rate calculateNormalSIP returns
\* monthlyInvestment * years * 12, and the normal summary has futureValue
\* equal to totalInvested and returns 0
C12_AsStated ==
  (pc = "setResults" /\ IsZero(args.annualReturn)) =>
    /\ normalSIP = Mul(Mul(args.monthlyInvestment, FromInt(args.years)), FromInt(12))
    /\ results.normal.futureValue = results.normal.totalInvested
    /\ IsZero(results.normal.returns)

\* C12 as amended: at a zero rate calculateNormalSIP returns
\* monthlyInvestment * (years * 12), the normal summary has that as
\* futureValue, a totalInvested within a relative 2^-30 of it and their
\* difference as returns; for a whole monthlyInvestment the two are equal
\* and returns is 0
C12_ZeroRate ==
  (pc = "setResults" /\ IsZero(args.annualReturn)) =>
    /\ normalSIP = Mul(args.monthlyInvestment, FromInt(args.years * 12))
    /\ results.normal.futureValue = normalSIP
    /\ results.normal.returns = Sub(normalSIP, results.normal.totalInvested)
    /\ Close(results.normal.futureValue, results.normal.totalInvested)
    /\ IsInteger(args.monthlyInvestment) =>
         /\ results.normal.futureValue = results.normal.totalInvested
         /\ IsZero(results.normal.returns)

C12_Witness ==
  /\ pc = "setResults"
  /\ IsZero(args.annualReturn)
  /\ args.monthlyInvestment = FromInt(5000)
  /\ args.years = MaxYears
  /\ results.normal.futureValue = FromInt(5000 * MaxYears * 12)
  /\ results.normal.totalInvested = FromInt(5000 * MaxYears * 12)
  /\ IsZero(results.normal.returns)

\* C13: when generateYearlyBreakdown returns, the yearEndValue of record y is
\* Math.round of what calculateStepUpSIP returns for y years, so that of the
\* last record is Math.round of what it returned for the years asked for
C13_SameSimulation ==
  pc = "calculateNormalSIP" =>
    /\ \A y \in 1..Len(yearly.breakdown) :
         yearly.breakdown[y].yearEndValue
           = MathRound(calculateStepUpSIP(args.monthlyInvestment, args.annualReturn,
                                          y, args.stepUpPercent))
    /\ args.years >= 1 =>
         yearly.breakdown[Len(yearly.breakdown)].yearEndValue = MathRound(stepUpSIP)

C13_Witness ==
  /\ pc = "calculateNormalSIP"
  /\ args.years = MaxHorizon
  /\ ~IsZero(args.stepUpPercent)
  /\ ~IsInteger(stepUpSIP)
  /\ \E y \in 1..(MaxHorizon - 1) : ~IsInteger(
        calculateStepUpSIP(args.monthlyInvestment, args.annualReturn, y,
                           args.stepUpPercent))
  /\ yearly.breakdown[MaxHorizon].yearEndValue = MathRound(stepUpSIP)

\* C14 as stated: for monthlyInvestment > 0, annualReturn >= 0 and
\* stepUpPercent > 0, calculateStepUpSIP returns more than calculateNormalSIP
\* for years >= 2 and the same for years = 1
C14_AsStated ==
  (/\ pc = "done"
   /\ Lt(Zero, args.monthlyInvestment)
   /\ Le(Zero, args.annualReturn)
   /\ Lt(Zero, args.stepUpPercent)) =>
    /\ args.years >= 2 => Lt(normalSIP, stepUpSIP)
    /\ args.years = 1 => stepUpSIP = normalSIP

\* C14 as amended: for monthlyInvestment > 0, annualReturn >= 0 and
\* stepUpPercent >= 1, calculateStepUpSIP returns more than calculateNormalSIP
\* for years >= 2, and for years = 1 what it returns within a relative 2^-30
C14_StepUpGain ==
  (/\ pc = "done"
   /\ Lt(Zero, args.monthlyInvestment)
   /\ Le(Zero, args.annualReturn)
   /\ Le(One, args.stepUpPercent)) =>
    /\ args.years >= 2 => Lt(normalSIP, stepUpSIP)
    /\ args.years = 1 => Close(stepUpSIP, normalSIP)

C14_Witness ==
  /\ pc = "done"
  /\ Lt(Zero, args.monthlyInvestment)
  /\ Lt(Zero, args.annualReturn)
  /\ Le(One, args.stepUpPercent)
  /\ args.years = 2
  /\ Lt(normalSIP, stepUpSIP)

====
